---- MODULE Spec2Model ----
(***************************************************************************)
(* burp-control: conversion of a Burp scan report into a JUnit report      *)
(* (junit-report.js: Severity, groupBy, isAboveThreshold,                  *)
(* createJunitReport).  createJunitReport is modelled statement by         *)
(* statement; the libraries it calls (fast-xml-parser, xmlbuilder,         *)
(* string-format, JSON, Object.keys) are modelled by what they return.     *)
(* The command line program (burpctl.js) is modelled command by command:   *)
(* each request to the Burp API, each file operation, each message on the  *)
(* console and the exit of the process is a step.                          *)
(***************************************************************************)
EXTENDS Integers, Sequences, FiniteSets, TLC

VARIABLES
    issueReport,    \* content of the file issueReportFilename (the scan report)
    threshhold,     \* third argument of createJunitReport
    pc,             \* position inside createJunitReport
    scanReport,     \* let scanReport (line 82)
    groupedIssues,  \* let groupedIssues (line 83)
    junitReport,    \* let junitReport: the xmlbuilder tree and the current node
    gi,             \* index of the group the outer forEach is at
    ii,             \* index of the issue the inner forEach is at
    error,          \* the exception createJunitReport ended with, if any
    junitFile,      \* the file junitReportFilename
    earlier,        \* the calls of createJunitReport this process has completed
    command,        \* burpctl: the command on the command line
    argvThreshold,  \* burpctl: the value typed after --threshold, if any
    configFile,     \* burpctl: state of the configuration file
    config,         \* burpctl: the parsed configuration (scope and targets)
    machine,        \* burpctl: whether the Burp API answers when the command starts,
                    \*   which of the two jars exist, whether spawn gives a pid
    percentage,     \* the progress the Burp API reports for the crawl or scan
    cpc,            \* burpctl: position inside the command's action
    requests,       \* burpctl: the requests sent to the Burp API, in order
    stdout,         \* burpctl: the messages written to the console, in order
    exitCode,       \* burpctl: exit code of the process, once it has ended
    tmpReport,      \* burpctl: the temporary file getReport downloads to
    spawned,        \* burpctl: number of Java processes spawned
    elapsedSeconds, \* burpctl: let elapsedSeconds (line 283)
    burpVersion,    \* burpctl: let burpVersion (line 285)
    status,         \* burpctl: let status (lines 309, 320)
    entryIndex      \* burpctl: index of the entry a forEach is at

\* what the command line and the machine give, fixed during a run
givenVars == <<command, argvThreshold, configFile, config, machine>>

\* the locals of the loops
loopVars == <<elapsedSeconds, burpVersion, status, entryIndex>>

cliVars == <<givenVars, cpc, requests, stdout, exitCode, tmpReport, spawned,
             loopVars, percentage>>

junitVars == <<issueReport, threshhold, pc, scanReport, groupedIssues, junitReport,
               gi, ii, error, junitFile, earlier>>

vars == <<junitVars, cliVars>>

-----------------------------------------------------------------------------
(* Bounds of the model *)

\* largest number of entries of targetScope.include, of targetScope.exclude
\* and of scan_targets or crawl_targets in a configuration
MaxEntries == 2

\* largest number of <issue> elements in a scan report
MaxIssues == 3

\* largest number of calls of createJunitReport in one process
MaxCalls == 3

\* the issue names of the model; "2" is a name made of digits, which
\* fast-xml-parser hands over as the number 2
Names == {"XSS", "2"}

ParsedAsNumber == {"2"}

\* the four levels, a name that is no level, and a name that is no level but
\* is a property every JavaScript object inherits from Object.prototype
Levels == {"Information", "Low", "Medium", "High"}

InheritedKeys == {"constructor"}

\* a level name in another letter case
OtherCase == {"high"}

SeverityNames == Levels \cup {"Critical"} \cup InheritedKeys \cup OtherCase

\* The severities the issue at position i is drawn from: two of the four
\* levels and the name that is no level at the odd positions, the other two
\* levels and the inherited name at the even ones, so that every name occurs
\* and the number of reports stays small.  The threshold ranges over
\* SeverityNames.
SeveritiesAt(i) ==
    IF i % 2 = 1 THEN {"Information", "Medium", "Critical"}
                 ELSE {"Low", "High"} \cup InheritedKeys

Roots == {"issues", "report"}

-----------------------------------------------------------------------------
(* The scan report *)

Confidences == <<"Certain", "Firm", "Tentative">>

\* The issue at position i of the report.  name and severity decide what the
\* converter does and are free; the other fields are only copied, and are
\* distinct from one position to the next so that a mix-up shows.
IssueAt(i, name, severity) ==
    [ serialNumber    |-> 7 * i,
      name            |-> name,
      type            |-> "type-" \o ToString(i),
      host            |-> "host-" \o ToString(i),
      path            |-> "/path-" \o ToString(i),
      severity        |-> severity,
      confidence      |-> Confidences[(i % 3) + 1],
      issueBackground |-> "background-" \o ToString(i),
      issueDetail     |-> "detail-" \o ToString(i) ]

IssueLists ==
    UNION { { [i \in 1..n |-> IssueAt(i, ns[i], ss[i])] :
                ns \in [1..n -> Names],
                ss \in { f \in [1..n -> SeverityNames] :
                           \A i \in 1..n : f[i] \in SeveritiesAt(i) } } :
            n \in 0..MaxIssues }

\* The thresholds of the calls of a process that converts one report several
\* times: a valid one, and one that makes the conversion throw half-way.
RepeatThresholds == {"Medium", "Critical"}

\* A scan report: its root element, whether the end tag of the root is there,
\* and the <issue> children of the root.  The reports without the end tag are
\* not well-formed XML; they are those of fewer than MaxIssues issues.
IssueReports ==
    { [root |-> "issues", closed |-> TRUE, issues |-> l] : l \in IssueLists }
      \cup { [root |-> r, closed |-> TRUE, issues |-> <<>>] : r \in Roots \ {"issues"} }
      \cup { [root |-> "issues", closed |-> FALSE, issues |-> l] :
                l \in { m \in IssueLists : Len(m) < MaxIssues } }

-----------------------------------------------------------------------------
(* JavaScript values *)

Undefined == [kind |-> "undefined"]

NoError == [type |-> "none", message |-> ""]

\* xmlparser.parse (fast-xml-parser, default options): a tag with no children
\* is the empty string, a tag that occurs once under its parent is a single
\* object, a tag that occurs several times is an array.  The call asks for no
\* validation (no third argument): the parser builds the tree from the tags it
\* meets and does not look for the end tag of the root.
xmlparserParse(report) ==
    [ issues |->
        IF report.root # "issues" THEN Undefined
        ELSE IF Len(report.issues) = 0 THEN [kind |-> "string", value |-> ""]
        ELSE [ kind  |-> "object",
               issue |-> IF Len(report.issues) = 1
                         THEN [kind |-> "object", value |-> report.issues[1]]
                         ELSE [kind |-> "array", value |-> report.issues] ] ]

-----------------------------------------------------------------------------
(* Severity (lines 43-49) and isAboveThreshold (lines 68-78) *)

\* the levels numbered in the alphabetical order of their names
SeverityRankLexical(name) ==
    CASE name = "High"        -> 0
      [] name = "Information" -> 1
      [] name = "Low"         -> 2
      [] name = "Medium"      -> 3

\* The own properties of the frozen Severity object.
SeverityRank(name) ==
    CASE name = "Information" -> 0
      [] name = "Low"         -> 1
      [] name = "Medium"      -> 2
      [] name = "High"        -> 3

\* Severity[key]: an own property is its number; a key the object does not
\* own is looked up on Object.prototype, where "constructor" and the like are
\* functions; any other key is undefined.
SeverityGet(key) ==
    IF key \in Levels THEN [kind |-> "number", n |-> SeverityRank(key)]
    ELSE IF key \in InheritedKeys THEN [kind |-> "function"]
    ELSE Undefined

\* a >= b of JavaScript: two numbers compare as numbers; a function converts
\* to NaN, and every comparison with NaN is false.
GreaterOrEqual(a, b) ==
    /\ a.kind = "number"
    /\ b.kind = "number"
    /\ a.n >= b.n

Returns(v) == [throws |-> FALSE, value |-> v, error |-> NoError]

Throws(type, message) ==
    [throws |-> TRUE, value |-> FALSE, error |-> [type |-> type, message |-> message]]

\* isAboveThreshold with > in place of >= on line 77
isAboveThresholdStrict(issue, threshold) ==
    IF SeverityGet(threshold) = Undefined
    THEN Throws("Error", "Unknown severity threshold specified " \o threshold)
    ELSE IF SeverityGet(issue.severity) = Undefined
    THEN Throws("Error", "Issue has unknown severity " \o issue.severity)
    ELSE Returns(/\ SeverityGet(issue.severity).kind = "number"
                 /\ SeverityGet(threshold).kind = "number"
                 /\ SeverityGet(issue.severity).n > SeverityGet(threshold).n)

isAboveThreshold(issue, threshold) ==
    IF SeverityGet(threshold) = Undefined
    THEN Throws("Error", "Unknown severity threshold specified " \o threshold)
    ELSE IF SeverityGet(issue.severity) = Undefined
    THEN Throws("Error", "Issue has unknown severity " \o issue.severity)
    ELSE Returns(GreaterOrEqual(SeverityGet(issue.severity), SeverityGet(threshold)))

-----------------------------------------------------------------------------
(* groupBy (lines 53-66) *)

\* the key without JSON.stringify: the array converts to its element's text
JSONstringifyOmitted(arr) == arr[1]

\* JSON.stringify of a one-element array holding an issue name: a number is
\* written bare, a string in double quotes.
JSONstringify(arr) ==
    "[" \o (IF arr[1] \in ParsedAsNumber THEN arr[1] ELSE "\"" \o arr[1] \o "\"") \o "]"

\* a callback that returns the type in place of the name
keyOfType(item) == <<item.type>>

\* The callback createJunitReport passes to groupBy (lines 83-86).
keyOf(item) == <<item.name>>

\* let group = JSON.stringify(f(item))
groupKey(item) == JSONstringify(keyOf(item))

\* A JavaScript object is the list of its properties in creation order.
HasKey(obj, key) == \E k \in 1..Len(obj) : obj[k].key = key

GetKey(obj, key) == obj[CHOOSE k \in 1..Len(obj) : obj[k].key = key].value

\* groups[group] = [item]: the group is started again at every item
pushToReplacing(obj, key, item) ==
    IF HasKey(obj, key)
    THEN [k \in 1..Len(obj) |->
            IF obj[k].key = key THEN [key |-> key, value |-> <<item>>] ELSE obj[k]]
    ELSE Append(obj, [key |-> key, value |-> <<item>>])

\* groups[group] = groups[group] || []; groups[group].push(item);
pushTo(obj, key, item) ==
    IF HasKey(obj, key)
    THEN [k \in 1..Len(obj) |->
            IF obj[k].key = key
            THEN [key |-> key, value |-> Append(obj[k].value, item)]
            ELSE obj[k]]
    ELSE Append(obj, [key |-> key, value |-> <<item>>])

RECURSIVE forEachItem(_, _, _)
forEachItem(array, i, groups) ==
    IF i > Len(array) THEN groups
    ELSE forEachItem(array, i + 1, pushTo(groups, groupKey(array[i]), array[i]))

\* Property keys that are array indices: the canonical decimal form of a
\* non-negative integer.
MaxIndexKey == 9

IndexKeys == { ToString(n) : n \in 0..MaxIndexKey }

IndexOf(key) == CHOOSE n \in 0..MaxIndexKey : ToString(n) = key

RECURSIVE SortedIndexKeys(_)
SortedIndexKeys(keys) ==
    IF keys = {} THEN <<>>
    ELSE LET least == CHOOSE k \in keys : \A o \in keys : IndexOf(k) <= IndexOf(o)
         IN  <<least>> \o SortedIndexKeys(keys \ {least})

RECURSIVE OtherKeys(_, _)
OtherKeys(obj, k) ==
    IF k > Len(obj) THEN <<>>
    ELSE (IF obj[k].key \in IndexKeys THEN <<>> ELSE <<obj[k].key>>) \o OtherKeys(obj, k + 1)

\* Object.keys: the array-index keys in ascending numeric order, then the
\* other string keys in creation order.
ObjectKeys(obj) ==
    SortedIndexKeys({ obj[k].key : k \in 1..Len(obj) } \cap IndexKeys) \o OtherKeys(obj, 1)

groupBy(array) ==
    LET groups == forEachItem(array, 1, <<>>)
        keys   == ObjectKeys(groups)
    IN  [g \in 1..Len(keys) |-> GetKey(groups, keys[g])]

-----------------------------------------------------------------------------
(* xmlbuilder: the tree is the list of its nodes in creation order, each     *)
(* with the index of its parent (0 for the root); the builder value is the  *)
(* tree with the node the chain is at.                                      *)

\* a document created once per process: a later call continues the document
\* the earlier call has written
createOncePerProcess(tag) ==
    IF junitFile.writes > 0
    THEN [nodes |-> junitFile.content, cursor |-> 1]
    ELSE [ nodes  |-> <<[tag |-> tag, parent |-> 0, atts |-> <<>>, text |-> ""]>>,
           cursor |-> 1 ]

create(tag) ==
    [ nodes  |-> <<[tag |-> tag, parent |-> 0, atts |-> <<>>, text |-> ""]>>,
      cursor |-> 1 ]

eleText(b, tag, text) ==
    [ nodes  |-> Append(b.nodes, [tag |-> tag, parent |-> b.cursor, atts |-> <<>>, text |-> text]),
      cursor |-> Len(b.nodes) + 1 ]

ele(b, tag) == eleText(b, tag, "")

\* Attribute values are written as strings.
att(b, name, value) ==
    [b EXCEPT !.nodes[b.cursor].atts = Append(@, <<name, value>>)]

up(b) == [b EXCEPT !.cursor = b.nodes[b.cursor].parent]


-----------------------------------------------------------------------------
(* createJunitReport (lines 80-119) *)

\* createJunitReport is called as a library: no burpctl command is running
NoCommand ==
    /\ command = "none"
    /\ argvThreshold = [typed |-> FALSE, value |-> ""]
    /\ configFile = "ok"
    /\ config = [include |-> <<>>, exclude |-> <<>>, targets |-> <<>>]
    /\ machine = [api |-> "refused", burp_api_jar |-> FALSE, burp_jar |-> FALSE, pid |-> FALSE]
    /\ percentage = 0
    /\ entryIndex = 0
    /\ cpc = "none"
    /\ requests = <<>>
    /\ stdout = <<>>
    /\ exitCode = -1
    /\ tmpReport = "none"
    /\ spawned = 0
    /\ elapsedSeconds = 0
    /\ burpVersion = ""
    /\ status = 0

Init ==
    /\ issueReport \in IssueReports
    /\ threshhold \in SeverityNames
    /\ pc = "l82"
    /\ scanReport = Undefined
    /\ groupedIssues = <<>>
    /\ junitReport = Undefined
    /\ gi = 0
    /\ ii = 0
    /\ error = NoError
    /\ junitFile = [writes |-> 0, content |-> <<>>]
    /\ earlier = <<>>
    /\ NoCommand

\* An exception leaves createJunitReport: nothing after the throwing
\* statement runs.
Throw(e) ==
    /\ pc' = "thrown"
    /\ error' = e

\* line 82: read the scan report and parse it
Parse ==
    /\ pc = "l82"
    /\ scanReport' = xmlparserParse(issueReport)
    /\ pc' = "l83"
    /\ UNCHANGED <<cliVars, earlier, issueReport, threshhold, groupedIssues, junitReport, gi, ii,
                   error, junitFile>>

\* scanReport.issues.issue without the || []
issueOrEmptyNoDefault(report) ==
    IF report.issues = Undefined
    THEN Throws("TypeError", "Cannot read property 'issue' of undefined")
    ELSE IF report.issues.kind = "string"
    THEN Returns(Undefined)
    ELSE Returns(report.issues.issue)

\* scanReport.issues.issue || []
issueOrEmpty(report) ==
    IF report.issues = Undefined
    THEN Throws("TypeError", "Cannot read property 'issue' of undefined")
    ELSE IF report.issues.kind = "string"
    THEN Returns([kind |-> "array", value |-> <<>>])
    ELSE Returns(report.issues.issue)

\* lines 83-88: group the issues by name and create the document.  groupBy's
\* array.forEach exists only on an array.
Group ==
    /\ pc = "l83"
    /\ LET arg == issueOrEmpty(scanReport) IN
         IF arg.throws
         THEN /\ Throw(arg.error)
              /\ UNCHANGED <<groupedIssues, junitReport, gi>>
         ELSE IF arg.value.kind # "array"
         THEN /\ Throw([type |-> "TypeError", message |-> "array.forEach is not a function"])
              /\ UNCHANGED <<groupedIssues, junitReport, gi>>
         ELSE /\ groupedIssues' = groupBy(arg.value.value)
              /\ junitReport' = create("testsuites")
              /\ gi' = 1
              /\ pc' = "l89"
              /\ UNCHANGED error
    /\ UNCHANGED <<cliVars, earlier, issueReport, threshhold, scanReport, ii, junitFile>>

\* lines 90-93 with tests = groupedIssues.length in place of group.length
OpenTestsuiteCountingGroups ==
    /\ pc = "l89"
    /\ gi <= Len(groupedIssues)
    /\ LET group == groupedIssues[gi] IN
         junitReport' =
           att(att(att(ele(junitReport, "testsuite"),
                       "name", group[1].name),
                   "tests", ToString(Len(groupedIssues))),
               "package", group[1].type)
    /\ ii' = 1
    /\ pc' = "l95"
    /\ UNCHANGED <<cliVars, earlier, issueReport, threshhold, scanReport, groupedIssues, gi, error,
                   junitFile>>

\* lines 90-93 with package taken from the last issue of the group
OpenTestsuiteLastType ==
    /\ pc = "l89"
    /\ gi <= Len(groupedIssues)
    /\ LET group == groupedIssues[gi] IN
         junitReport' =
           att(att(att(ele(junitReport, "testsuite"),
                       "name", group[1].name),
                   "tests", ToString(Len(group))),
               "package", group[Len(group)].type)
    /\ ii' = 1
    /\ pc' = "l95"
    /\ UNCHANGED <<cliVars, earlier, issueReport, threshhold, scanReport, groupedIssues, gi, error,
                   junitFile>>

\* lines 90-93: the testsuite element of the group at gi
OpenTestsuite ==
    /\ pc = "l89"
    /\ gi <= Len(groupedIssues)
    /\ LET group == groupedIssues[gi] IN
         junitReport' =
           att(att(att(ele(junitReport, "testsuite"),
                       "name", group[1].name),
                   "tests", ToString(Len(group))),
               "package", group[1].type)
    /\ ii' = 1
    /\ pc' = "l95"
    /\ UNCHANGED <<cliVars, earlier, issueReport, threshhold, scanReport, groupedIssues, gi, error,
                   junitFile>>

\* lines 96-100 with the serial number of the group's first issue
OpenTestcaseFirstSerial ==
    /\ pc = "l95"
    /\ ii <= Len(groupedIssues[gi])
    /\ LET issue == groupedIssues[gi][ii] IN
         junitReport' =
           att(att(att(ele(junitReport, "testcase"),
                       "name", "Issue-" \o ToString(groupedIssues[gi][1].serialNumber)),
                   "classname", issue.name),
               "status", issue.severity \o "/" \o issue.confidence)
    /\ pc' = "l102"
    /\ UNCHANGED <<cliVars, earlier, issueReport, threshhold, scanReport, groupedIssues, gi, ii,
                   error, junitFile>>

\* lines 96-100: the testcase element of the issue at ii
OpenTestcase ==
    /\ pc = "l95"
    /\ ii <= Len(groupedIssues[gi])
    /\ LET issue == groupedIssues[gi][ii] IN
         junitReport' =
           att(att(att(ele(junitReport, "testcase"),
                       "name", "Issue-" \o ToString(issue.serialNumber)),
                   "classname", issue.name),
               "status", issue.severity \o "/" \o issue.confidence)
    /\ pc' = "l102"
    /\ UNCHANGED <<cliVars, earlier, issueReport, threshhold, scanReport, groupedIssues, gi, ii,
                   error, junitFile>>

\* lines 103-104 with issue.path and issue.host in each other's place
descriptionHostPathSwapped(issue) ==
    "Host: " \o issue.path \o "\nPath: " \o issue.host
      \o "\nSeverity: " \o issue.severity \o "\nConfidence: " \o issue.confidence
      \o "\nType: " \o issue.type \o "\nSerial Number: " \o ToString(issue.serialNumber)
      \o "\nBackground: " \o issue.issueBackground \o "\nDetail: " \o issue.issueDetail

\* lines 103-104: the body of the failure element
description(issue) ==
    "Host: " \o issue.host \o "\nPath: " \o issue.path
      \o "\nSeverity: " \o issue.severity \o "\nConfidence: " \o issue.confidence
      \o "\nType: " \o issue.type \o "\nSerial Number: " \o ToString(issue.serialNumber)
      \o "\nBackground: " \o issue.issueBackground \o "\nDetail: " \o issue.issueDetail

\* lines 102-110: compare the issue with the threshold, add the failure
\* lines 102-110 without the .up() of line 109: the chain stays at the failure
CheckThresholdNoUp ==
    /\ pc = "l102"
    /\ LET issue == groupedIssues[gi][ii]
           above == isAboveThreshold(issue, threshhold)
       IN  IF above.throws
           THEN /\ Throw(above.error)
                /\ UNCHANGED junitReport
           ELSE /\ junitReport' =
                     IF above.value
                     THEN att(eleText(junitReport, "failure", description(issue)),
                              "message", issue.name)
                     ELSE junitReport
                /\ pc' = "l111"
                /\ UNCHANGED error
    /\ UNCHANGED <<cliVars, earlier, issueReport, threshhold, scanReport, groupedIssues, gi, ii,
                   junitFile>>

CheckThreshold ==
    /\ pc = "l102"
    /\ LET issue == groupedIssues[gi][ii]
           above == isAboveThreshold(issue, threshhold)
       IN  IF above.throws
           THEN /\ Throw(above.error)
                /\ UNCHANGED junitReport
           ELSE /\ junitReport' =
                     IF above.value
                     THEN up(att(eleText(junitReport, "failure", description(issue)),
                                 "message", issue.name))
                     ELSE junitReport
                /\ pc' = "l111"
                /\ UNCHANGED error
    /\ UNCHANGED <<cliVars, earlier, issueReport, threshhold, scanReport, groupedIssues, gi, ii,
                   junitFile>>

\* line 111: back from the testcase to the testsuite, next issue
CloseTestcase ==
    /\ pc = "l111"
    /\ junitReport' = up(junitReport)
    /\ ii' = ii + 1
    /\ pc' = "l95"
    /\ UNCHANGED <<cliVars, earlier, issueReport, threshhold, scanReport, groupedIssues, gi, error,
                   junitFile>>

\* line 113 followed by a write of the document built so far
CloseTestsuiteAndWrite ==
    /\ pc = "l95"
    /\ ii > Len(groupedIssues[gi])
    /\ junitReport' = up(junitReport)
    /\ gi' = gi + 1
    /\ pc' = "l89"
    /\ junitFile' = [writes |-> junitFile.writes + 1, content |-> junitReport.nodes]
    /\ UNCHANGED <<cliVars, earlier, issueReport, threshhold, scanReport, groupedIssues, ii, error>>

\* line 113: back from the testsuite to the root, next group
CloseTestsuite ==
    /\ pc = "l95"
    /\ ii > Len(groupedIssues[gi])
    /\ junitReport' = up(junitReport)
    /\ gi' = gi + 1
    /\ pc' = "l89"
    /\ UNCHANGED <<cliVars, earlier, issueReport, threshhold, scanReport, groupedIssues, ii, error,
                   junitFile>>

\* junitReport.end(): the whole document, from whichever node it is called on
end(b) == b.nodes

\* lines 116-118: serialize the document and write the JUnit report file
EndAndWrite ==
    /\ pc = "l89"
    /\ gi > Len(groupedIssues)
    /\ junitFile' = [writes |-> junitFile.writes + 1, content |-> end(junitReport)]
    /\ pc' = "returned"
    /\ UNCHANGED <<cliVars, earlier, issueReport, threshhold, scanReport, groupedIssues, junitReport,
                   gi, ii, error>>

\* what a call that has ended leaves behind: how it ended, and the document
\* it wrote
Outcome ==
    [ threshhold |-> threshhold,
      result     |-> pc,
      error      |-> error,
      content    |-> IF pc = "returned" THEN junitFile.content ELSE <<>> ]

\* createJunitReport is called again in the same process, on the same scan
\* report: its locals (lines 82-88) are new, the module holds nothing but the
\* frozen Severity, the files stay as they are.
Invoke ==
    /\ pc \in {"returned", "thrown"}
    /\ Len(earlier) < MaxCalls - 1
    /\ earlier' = Append(earlier, Outcome)
    /\ threshhold' \in RepeatThresholds
    /\ pc' = "l82"
    /\ scanReport' = Undefined
    /\ groupedIssues' = <<>>
    /\ junitReport' = Undefined
    /\ gi' = 0
    /\ ii' = 0
    /\ error' = NoError
    /\ UNCHANGED <<cliVars, issueReport, junitFile>>

Next ==
    \/ Parse
    \/ Group
    \/ OpenTestsuite
    \/ OpenTestcase
    \/ CheckThreshold
    \/ CloseTestcase
    \/ CloseTestsuite
    \/ EndAndWrite

Spec == Init /\ [][Next]_vars


-----------------------------------------------------------------------------
(* Reading the input and the document, for the properties below *)

\* the <issue> elements of the scan report, in document order
InputIssues == issueReport.issues

InputNames == { InputIssues[i].name : i \in 1..Len(InputIssues) }

\* the issues of the input that carry a name, in input order
IssuesNamed(name) == SelectSeq(InputIssues, LAMBDA x : x.name = name)

\* groupBy has returned and the document exists
Grouped == junitReport # Undefined

Nodes == IF Grouped THEN junitReport.nodes ELSE <<>>

Indices(nodes) == [i \in 1..Len(nodes) |-> i]

\* the children of node p that are tag elements, in document order
ChildrenOf(p, tag) ==
    SelectSeq(Indices(Nodes), LAMBDA i : Nodes[i].parent = p /\ Nodes[i].tag = tag)

Testsuites == ChildrenOf(1, "testsuite")

AllOf(tag) == { i \in 1..Len(Nodes) : Nodes[i].tag = tag }

HasAtt(n, name) == \E a \in 1..Len(Nodes[n].atts) : Nodes[n].atts[a][1] = name

AttOf(n, name) ==
    Nodes[n].atts[CHOOSE a \in 1..Len(Nodes[n].atts) : Nodes[n].atts[a][1] = name][2]

HasFailure(t) == Len(ChildrenOf(t, "failure")) > 0

TestcaseName(issue) == "Issue-" \o ToString(issue.serialNumber)

\* the testcase elements built from an issue
TestcasesOf(issue) ==
    { t \in AllOf("testcase") : HasAtt(t, "name") /\ AttOf(t, "name") = TestcaseName(issue) }

\* the testcase whose comparison with the threshold is still to come
Pending(t) == pc = "l102" /\ junitReport.cursor = t

\* the ranks as the specification gives them
Rank(level) ==
    CASE level = "Information" -> 0
      [] level = "Low"         -> 1
      [] level = "Medium"      -> 2
      [] level = "High"        -> 3

ThresholdMessage == "Unknown severity threshold specified " \o threshhold

RECURSIVE SumOf(_)
SumOf(seq) == IF seq = <<>> THEN 0 ELSE Head(seq) + SumOf(Tail(seq))

-----------------------------------------------------------------------------
(* Properties *)

\* C1: with a threshold that is one of the four levels, the testcase of an
\* issue whose severity is one of the four levels has a failure child exactly
\* when Rank(severity) >= Rank(threshold); in the report that is written every
\* such issue has its one testcase, with or without the failure child.
C1_FailureIffRankAtLeastThreshold ==
    threshhold \in Levels =>
      \A i \in 1..Len(InputIssues) :
        LET issue == InputIssues[i] IN
          issue.severity \in Levels =>
            /\ \A t \in TestcasesOf(issue) :
                 ~Pending(t) =>
                   (HasFailure(t) <=> Rank(issue.severity) >= Rank(threshhold))
            /\ pc = "returned" => Cardinality(TestcasesOf(issue)) = 1

\* a written report in which one issue is below the threshold and has its
\* testcase without a failure, and another meets it and has the failure
C1_Witness ==
    /\ pc = "returned"
    /\ threshhold \in Levels
    /\ \E i, j \in 1..Len(InputIssues) :
         /\ InputIssues[i].severity \in Levels
         /\ InputIssues[j].severity \in Levels
         /\ Rank(InputIssues[i].severity) < Rank(threshhold)
         /\ Rank(InputIssues[j].severity) >= Rank(threshhold)
         /\ \E t \in TestcasesOf(InputIssues[i]) : ~HasFailure(t)
         /\ \E t \in TestcasesOf(InputIssues[j]) : HasFailure(t)

\* C2: a threshold that is none of the four level names makes
\* createJunitReport fail with the threshold error before any issue is
\* processed, whatever the issue list, the empty one included: the call never
\* returns normally, no testcase is ever built, and the exception it ends
\* with is the threshold error.  (Stated for the reports whose issue list
\* reaches groupBy as an array: no issue, or several.)
C2_UnknownThresholdFailsFirst ==
    ( /\ threshhold \notin Levels
      /\ issueReport.root = "issues"
      /\ issueReport.closed
      /\ Len(InputIssues) # 1 ) =>
      /\ pc # "returned"
      /\ AllOf("testcase") = {}
      /\ pc = "thrown" => error = [type |-> "Error", message |-> ThresholdMessage]

\* C3: with a valid threshold and a report of several issues, an issue
\* whose severity is none of the four level names makes createJunitReport fail
\* with the severity error and produce no report.
C3_UnknownSeverityFails ==
    ( /\ threshhold \in Levels
      /\ Len(InputIssues) >= 2
      /\ \E i \in 1..Len(InputIssues) : InputIssues[i].severity \notin Levels ) =>
      /\ pc # "returned"
      /\ junitFile.writes = 0
      /\ pc = "thrown" =>
           \E i \in 1..Len(InputIssues) :
             /\ InputIssues[i].severity \notin Levels
             /\ error = [ type    |-> "Error",
                          message |-> "Issue has unknown severity " \o InputIssues[i].severity ]


\* C4: the JUnit report file is written at most once, only by a call that
\* returns normally after every group and every issue has been processed, and
\* then holds the complete document; a call that ends with an exception leaves
\* the file as it was.
C4_WrittenOnceOnlyWhenComplete ==
    /\ junitFile.writes <= 1
    /\ pc # "returned" => junitFile = [writes |-> 0, content |-> <<>>]
    /\ pc = "returned" =>
         /\ junitFile.writes = 1
         /\ error = NoError
         /\ gi > Len(groupedIssues)
         /\ junitFile.content = Nodes
         /\ Len(Testsuites) = Len(groupedIssues)
         /\ Cardinality(AllOf("testcase")) = Len(InputIssues)

\* the last issue of a report of several issues has the unknown severity:
\* every testcase has been built, the call has thrown, nothing is written
C4_Witness ==
    /\ pc = "thrown"
    /\ Len(InputIssues) >= 2
    /\ Cardinality(AllOf("testcase")) = Len(InputIssues)
    /\ error.message = "Issue has unknown severity Critical"
    /\ junitFile.writes = 0

\* the position of an issue in the input (the serial numbers are distinct)
PosOf(item) == CHOOSE i \in 1..Len(InputIssues) : InputIssues[i] = item

FirstPos(name) ==
    CHOOSE i \in 1..Len(InputIssues) :
      /\ InputIssues[i].name = name
      /\ \A j \in 1..(i - 1) : InputIssues[j].name # name

GroupLengths == [g \in 1..Len(groupedIssues) |-> Len(groupedIssues[g])]

\* C5: the groups groupBy returns partition the input: no group is empty,
\* every input issue is in exactly one place of exactly one group, and the
\* group sizes add up to the number of input issues.
C5_GroupByPartitions ==
    Grouped =>
      /\ \A g \in 1..Len(groupedIssues) : Len(groupedIssues[g]) > 0
      /\ \A i \in 1..Len(InputIssues) :
           Cardinality({ <<g, k>> \in (1..Len(groupedIssues)) \X (1..MaxIssues + 1) :
                           /\ k <= Len(groupedIssues[g])
                           /\ groupedIssues[g][k] = InputIssues[i] }) = 1
      /\ SumOf(GroupLengths) = Len(InputIssues)

\* two groups, one of them with two issues
C5_Witness ==
    /\ Grouped
    /\ Len(groupedIssues) = 2
    /\ \E g \in 1..2 : Len(groupedIssues[g]) >= 2

\* C6: the groups come in the order in which their names first occur in
\* the input, and the issues of a group keep their input order.
C6_GroupingIsStable ==
    Grouped =>
      /\ \A g, h \in 1..Len(groupedIssues) :
           g < h => FirstPos(groupedIssues[g][1].name) < FirstPos(groupedIssues[h][1].name)
      /\ \A g \in 1..Len(groupedIssues) :
           \A k, l \in 1..Len(groupedIssues[g]) :
             k < l => PosOf(groupedIssues[g][k]) < PosOf(groupedIssues[g][l])

\* "XSS" occurs before "2" in the input and its group comes first, although
\* "2" sorts before "XSS"; the two names alternate in the input
C6_Witness ==
    /\ Grouped
    /\ Len(InputIssues) = 3
    /\ InputIssues[1].name = "XSS"
    /\ InputIssues[2].name = "2"
    /\ InputIssues[3].name = "XSS"
    /\ Len(groupedIssues) = 2
    /\ groupedIssues[1][1].name = "XSS"
    /\ groupedIssues[2][1].name = "2"

\* the testsuite a testcase is a child of
SuiteOf(t) == Nodes[t].parent

\* C7: all issues of a group share one name and no two groups share a
\* name; the written report has as many testsuite elements as the input has
\* distinct names, and the testcases of two issues of the same name are
\* children of the same testsuite.
C7_OneTestsuitePerName ==
    /\ Grouped =>
         /\ \A g \in 1..Len(groupedIssues) :
              \A k \in 1..Len(groupedIssues[g]) :
                groupedIssues[g][k].name = groupedIssues[g][1].name
         /\ \A g, h \in 1..Len(groupedIssues) :
              g # h => groupedIssues[g][1].name # groupedIssues[h][1].name
    /\ pc = "returned" =>
         /\ Len(Testsuites) = Cardinality(InputNames)
         /\ \A i, j \in 1..Len(InputIssues) :
              InputIssues[i].name = InputIssues[j].name =>
                \A t \in TestcasesOf(InputIssues[i]), u \in TestcasesOf(InputIssues[j]) :
                  SuiteOf(t) = SuiteOf(u)

\* a written report whose first and third issue share a name the second
\* does not have: two testsuites, the first and third testcase in the same one
C7_Witness ==
    /\ pc = "returned"
    /\ Len(InputIssues) = 3
    /\ InputIssues[1].name = InputIssues[3].name
    /\ InputIssues[1].name # InputIssues[2].name
    /\ Len(Testsuites) = 2
    /\ \E t \in TestcasesOf(InputIssues[1]), u \in TestcasesOf(InputIssues[3]) :
         SuiteOf(t) = SuiteOf(u)

\* the number an attribute value is the decimal form of
NumberOf(str) == CHOOSE n \in 0..(MaxIssues + 1) : ToString(n) = str

TestsValues == [s \in 1..Len(Testsuites) |-> NumberOf(AttOf(Testsuites[s], "tests"))]

\* C8: in the written report the tests attribute of every testsuite is the
\* number of its testcase children, which is the number of input issues with
\* the testsuite's name; the tests attributes add up to the number of input
\* issues.
C8_TestsCountsTestcases ==
    pc = "returned" =>
      /\ \A s \in 1..Len(Testsuites) :
           /\ AttOf(Testsuites[s], "tests")
                = ToString(Len(ChildrenOf(Testsuites[s], "testcase")))
           /\ Len(ChildrenOf(Testsuites[s], "testcase"))
                = Len(IssuesNamed(AttOf(Testsuites[s], "name")))
      /\ SumOf(TestsValues) = Len(InputIssues)

\* a written report with a testsuite of two testcases and one of one
C8_Witness ==
    /\ pc = "returned"
    /\ \E s, r \in 1..Len(Testsuites) :
         /\ AttOf(Testsuites[s], "tests") = "2"
         /\ AttOf(Testsuites[r], "tests") = "1"

\* C9: the package attribute of a testsuite is the type of the first
\* input issue that carries the testsuite's name, from the moment the
\* testsuite is created on, whatever the types of the later issues.
C9_PackageIsFirstType ==
    \A s \in 1..Len(Testsuites) :
      AttOf(Testsuites[s], "package") = IssuesNamed(AttOf(Testsuites[s], "name"))[1].type

\* a written report with a testsuite of two issues of different types
C9_Witness ==
    /\ pc = "returned"
    /\ \E s \in 1..Len(Testsuites) :
         LET named == IssuesNamed(AttOf(Testsuites[s], "name")) IN
           /\ Len(named) >= 2
           /\ named[2].type # named[1].type
           /\ AttOf(Testsuites[s], "package") = named[1].type

\* C10: the k-th testcase of a testsuite carries exactly the attributes
\* name = "Issue-" + serialNumber, classname = name and status =
\* severity + "/" + confidence of the k-th input issue with the testsuite's
\* name; in the written report every testcase is such a child and every
\* testsuite has one testcase for each input issue of its name.
C10_TestcaseAttributes ==
    /\ \A s \in 1..Len(Testsuites) :
         LET named == IssuesNamed(AttOf(Testsuites[s], "name"))
             cases == ChildrenOf(Testsuites[s], "testcase")
         IN  /\ Len(cases) <= Len(named)
             /\ \A k \in 1..Len(cases) :
                  Nodes[cases[k]].atts =
                    << <<"name", "Issue-" \o ToString(named[k].serialNumber)>>,
                       <<"classname", named[k].name>>,
                       <<"status", named[k].severity \o "/" \o named[k].confidence>> >>
             /\ pc = "returned" => Len(cases) = Len(named)
    /\ \A t \in AllOf("testcase") :
         \E s \in 1..Len(Testsuites) : Nodes[t].parent = Testsuites[s]

\* a written report of three issues, two of them in one testsuite, whose
\* second testcase is the one of the third input issue
C10_Witness ==
    /\ pc = "returned"
    /\ Len(InputIssues) = 3
    /\ \E s \in 1..Len(Testsuites) :
         LET cases == ChildrenOf(Testsuites[s], "testcase") IN
           /\ Len(cases) = 2
           /\ AttOf(cases[2], "name") = TestcaseName(InputIssues[3])
           /\ AttOf(cases[2], "status") = InputIssues[3].severity \o "/Certain"


\* the input issue the testcase element t was built from: the k-th issue with
\* the name of t's testsuite, for the k-th testcase of that testsuite
IssueOfTestcase(t) ==
    LET s     == Nodes[t].parent
        cases == ChildrenOf(s, "testcase")
        k     == CHOOSE j \in 1..Len(cases) : cases[j] = t
    IN  IssuesNamed(AttOf(s, "name"))[k]

\* label and value of the eight lines of a failure body, in order
FailureLines(issue) ==
    << <<"Host", issue.host>>,
       <<"Path", issue.path>>,
       <<"Severity", issue.severity>>,
       <<"Confidence", issue.confidence>>,
       <<"Type", issue.type>>,
       <<"Serial Number", ToString(issue.serialNumber)>>,
       <<"Background", issue.issueBackground>>,
       <<"Detail", issue.issueDetail>> >>

RECURSIVE JoinLines(_)
JoinLines(lines) ==
    IF Len(lines) = 1 THEN lines[1][1] \o ": " \o lines[1][2]
    ELSE lines[1][1] \o ": " \o lines[1][2] \o "\n" \o JoinLines(Tail(lines))

\* C11: every failure element is the child of a testcase, has the one
\* attribute message = the name of that testcase's issue, and its body is the
\* eight lines Host, Path, Severity, Confidence, Type, Serial Number,
\* Background, Detail, in this order, each with the field of the same issue.
C11_FailureMessageAndBody ==
    \A f \in AllOf("failure") :
      /\ Nodes[f].parent \in AllOf("testcase")
      /\ LET issue == IssueOfTestcase(Nodes[f].parent) IN
           /\ Nodes[f].atts = << <<"message", issue.name>> >>
           /\ Nodes[f].text = JoinLines(FailureLines(issue))

\* a written report with the failures of two issues
C11_Witness ==
    /\ pc = "returned"
    /\ Cardinality(AllOf("failure")) >= 2
    /\ \E f \in AllOf("failure") :
         /\ AttOf(f, "message") = "XSS"
         /\ IssueOfTestcase(Nodes[f].parent) = InputIssues[2]


\* C12 (its second part): for any issue list, in the report written with the
\* threshold Information every testcase has a failure child.
C12_InformationFailsEveryTestcase ==
    (pc = "returned" /\ threshhold = "Information") =>
      \A t \in AllOf("testcase") : HasFailure(t)


\* whether an issue of severity x meets the threshold y, as isAboveThreshold
\* answers it
Meets(x, y) == isAboveThreshold([severity |-> x], y).value

\* the levels among the threshold and the severities of the call's report
LevelsInCall ==
    Levels \cap ({threshhold} \cup { InputIssues[i].severity : i \in 1..Len(InputIssues) })

\* C13: where createJunitReport compares (line 102), the comparison over
\* the levels of the call never throws and is a total order consistent with
\* Information < Low < Medium < High: true exactly when the rank of the
\* severity is at least the rank of the threshold, reflexive, total,
\* antisymmetric and transitive.
C13_ComparisonIsTotalOrder ==
    pc = "l102" =>
      \A x, y \in LevelsInCall :
        LET r == isAboveThreshold([severity |-> x], y) IN
          /\ ~r.throws
          /\ r.value <=> Rank(x) >= Rank(y)
          /\ x = y => r.value
          /\ ~r.value => Meets(y, x)
          /\ r.value =>
               /\ Meets(y, x) => x = y
               /\ \A z \in LevelsInCall : Meets(y, z) => Meets(x, z)

\* the comparison has just been made for an issue whose severity is the
\* threshold itself, in a call with three levels or more, and the issue has
\* its failure
C13_Witness ==
    /\ pc = "l111"
    /\ threshhold \in Levels
    /\ groupedIssues[gi][ii].severity = threshhold
    /\ HasFailure(junitReport.cursor)
    /\ Cardinality(LevelsInCall) >= 3


\* an <issues> report without any issue, converted with a valid threshold
EmptyReportCase ==
    /\ issueReport.root = "issues"
    /\ Len(InputIssues) = 0
    /\ threshhold \in Levels

\* C14: a report with no issue, converted with a valid threshold, is not
\* an error: the call never throws, and when it has returned the file holds a
\* testsuites root without attributes, text or children.
C14_EmptyReportIsEmptyDocument ==
    EmptyReportCase =>
      /\ pc # "thrown"
      /\ error = NoError
      /\ pc = "returned" =>
           /\ junitFile.writes = 1
           /\ junitFile.content =
                << [tag |-> "testsuites", parent |-> 0, atts |-> <<>>, text |-> ""] >>

\* the conversion of an empty report has returned
C14_Witness ==
    /\ EmptyReportCase
    /\ issueReport.closed
    /\ pc = "returned"
    /\ Len(junitFile.content) = 1


\* C15: a report with exactly one issue (of valid severity, under a valid
\* threshold) is converted like any other: the conversion does not fail, and
\* the written report has one testsuite with tests = "1" and one testcase,
\* with a failure child iff the severity meets the threshold.
C15_SingleIssueIsConverted ==
    ( /\ issueReport.root = "issues"
      /\ issueReport.closed
      /\ Len(InputIssues) = 1
      /\ threshhold \in Levels
      /\ InputIssues[1].severity \in Levels ) =>
      /\ pc # "thrown"
      /\ pc = "returned" =>
           /\ Len(Testsuites) = 1
           /\ AttOf(Testsuites[1], "tests") = "1"
           /\ Cardinality(AllOf("testcase")) = 1
           /\ \A t \in AllOf("testcase") :
                HasFailure(t) <=> Rank(InputIssues[1].severity) >= Rank(threshhold)


-----------------------------------------------------------------------------
(* Several conversions of one report in one process *)

\* the well-formed reports whose issues all have a valid severity
RepeatReports ==
    { r \in IssueReports :
        /\ r.closed
        /\ \A i \in 1..Len(r.issues) : r.issues[i].severity \in Levels }

InitRepeat ==
    /\ Init
    /\ issueReport \in RepeatReports
    /\ threshhold \in RepeatThresholds

NextRepeat == Next \/ Invoke

SpecRepeat == InitRepeat /\ [][NextRepeat]_vars

Done == pc \in {"returned", "thrown"}

WellFormed == issueReport.closed /\ issueReport.root = "issues"

\* C17: createJunitReport never produces a report from a source that is
\* not well-formed (the root is not closed, or is not an issues element): the
\* call does not return normally and nothing is written.
C17_MalformedSourceIsRejected ==
    ~WellFormed =>
      /\ pc # "returned"
      /\ junitFile.writes = 0



\* the message of the error isAboveThreshold throws for this issue under the
\* threshold of the call ("" when it throws none)
MessageFor(issue) ==
    LET r == isAboveThreshold(issue, threshhold)
    IN  IF r.throws THEN r.error.message ELSE ""

\* the issue whose check threw
Offending == groupedIssues[gi][ii]

\* C18: an error for an unknown threshold carries the threshold value,
\* and an error for an unknown issue severity identifies the offending issue
\* by serial number or name: its message is not the message for an issue of
\* another name (and another serial number).
C18_ErrorsIdentifyTheirCause ==
    ( /\ pc = "thrown"
      /\ Grouped
      /\ error.type = "Error" ) =>
      IF SeverityGet(threshhold) = Undefined
        THEN error.message = "Unknown severity threshold specified " \o threshhold
        ELSE \A j \in 1..Len(InputIssues) :
               InputIssues[j].name # Offending.name =>
                 MessageFor(InputIssues[j]) # error.message



\* C19: names are matched in exact case: a threshold that differs from a
\* level name only in letter case ("high") is rejected as unknown, so a call
\* with it on a well-formed report never returns normally and writes nothing.
C19_OtherCaseIsRejected ==
    ( /\ threshhold \in OtherCase
      /\ WellFormed
      /\ Len(InputIssues) # 1 ) =>
      /\ pc # "returned"
      /\ junitFile.writes = 0



\* C20: the tree under construction is properly nested at every step:
\* testsuites is the only root; every testsuite is a child of the root; every
\* testcase is, at its place, a child of the testsuite of its own group; every
\* failure is a child of the testcase of its own issue; no testcase has two
\* failures; and the builder is at the root between groups and at the end, at
\* the open testsuite between the issues of a group, and at the open testcase
\* while an issue is handled.
C20_TreeIsProperlyNested ==
    Grouped =>
      /\ \A n \in 1..Len(Nodes) : (Nodes[n].parent = 0) = (n = 1)
      /\ Nodes[1].tag = "testsuites"
      /\ \A s \in AllOf("testsuite") : Nodes[s].parent = 1
      /\ \A t \in AllOf("testcase") :
           \E g \in 1..Len(groupedIssues) : \E k \in 1..Len(groupedIssues[g]) :
             /\ AttOf(t, "name") = TestcaseName(groupedIssues[g][k])
             /\ g <= Len(Testsuites)
             /\ Nodes[t].parent = Testsuites[g]
             /\ k <= Len(ChildrenOf(Testsuites[g], "testcase"))
             /\ ChildrenOf(Testsuites[g], "testcase")[k] = t
             /\ AttOf(Testsuites[g], "name") = AttOf(t, "classname")
      /\ \A f \in AllOf("failure") :
           LET t == Nodes[f].parent IN
             /\ Nodes[t].tag = "testcase"
             /\ AttOf(f, "message") = AttOf(t, "classname")
             /\ Nodes[f].text = JoinLines(FailureLines(IssueOfTestcase(t)))
      /\ \A t \in AllOf("testcase") : Len(ChildrenOf(t, "failure")) <= 1
      /\ \A n \in 1..Len(Nodes) : Nodes[n].tag \in {"testsuites", "testsuite", "testcase", "failure"}
      /\ pc \in {"l89", "returned"} => junitReport.cursor = 1
      /\ pc = "l95" =>
           /\ Len(Testsuites) = gi
           /\ junitReport.cursor = Testsuites[gi]
      /\ pc \in {"l102", "l111"} =>
           /\ Len(Testsuites) = gi
           /\ Len(ChildrenOf(Testsuites[gi], "testcase")) = ii
           /\ junitReport.cursor = ChildrenOf(Testsuites[gi], "testcase")[ii]

\* a written report of two testsuites, the first with a failing testcase
\* followed by a passing one
C20_Witness ==
    /\ pc = "returned"
    /\ junitReport.cursor = 1
    /\ Len(Testsuites) = 2
    /\ LET cases == ChildrenOf(Testsuites[1], "testcase") IN
         /\ Len(cases) = 2
         /\ HasFailure(cases[1])
         /\ ~HasFailure(cases[2])



\* C21: with a threshold that is no level and a well-formed report of
\* several issues, the conversion fails, and fails with the threshold error,
\* never with a severity error, whatever the severity of the first issue.
C21_ThresholdErrorBeforeSeverityError ==
    ( /\ threshhold \notin Levels
      /\ WellFormed
      /\ Len(InputIssues) >= 2 ) =>
      /\ pc # "returned"
      /\ pc = "thrown" => error = [type |-> "Error", message |-> ThresholdMessage]



-----------------------------------------------------------------------------
(* burpctl.js: the command line program *)

Commands == {"start", "stop", "crawl", "scan", "report", "junit", "status"}

\* values typed after --threshold: levels as written in Severity, levels in
\* another letter case, and a word that is no level
TypedThresholds == {"High", "Information", "high", "MEDIUM", "Critical"}

\* String.prototype.toLowerCase on the words above and on the level names
toLowerCase(s) ==
    CASE s \in {"High", "high"}       -> "high"
      [] s \in {"Medium", "MEDIUM"}   -> "medium"
      [] s = "Low"                    -> "low"
      [] s = "Information"            -> "information"
      [] s = "Critical"               -> "critical"

\* /^(Information|Low|Medium|High)$/ without the i flag
thresholdRegexExactCase(s) == s \in {"Information", "Low", "Medium", "High"}

\* /^(Information|Low|Medium|High)$/i (line 45): the whole value is one of
\* the four words, in any letter case
thresholdRegex(s) ==
    toLowerCase(s) \in { toLowerCase(l) : l \in {"Information", "Low", "Medium", "High"} }

\* commander's option with a regular expression and a default (line 45): a
\* typed value that matches is kept as typed, one that does not match is
\* replaced by the default, and so is a missing option
optionsThreshold(argv) ==
    IF argv.typed /\ thresholdRegex(argv.value) THEN argv.value ELSE "High"

\* what --threshold can be on the command line
ArgvThresholds ==
    { [typed |-> FALSE, value |-> ""] }
      \cup { [typed |-> TRUE, value |-> v] : v \in TypedThresholds }


\* the n entries of a list of the configuration
Entries(kind, n) == [i \in 1..n |-> kind \o ToString(i)]

NoConfig == [include |-> <<>>, exclude |-> <<>>, targets |-> <<>>]

\* config.targetScope.include, config.targetScope.exclude, and the targets of
\* the command (config.scan_targets or config.crawl_targets)
Configs ==
    { [include |-> Entries("in", a), exclude |-> Entries("ex", b), targets |-> Entries("target", c)] :
        a \in 0..MaxEntries, b \in 0..MaxEntries, c \in 0..MaxEntries }

\* the configuration file is there and is JSON, is not there, or is not JSON
ConfigFiles == {"ok", "missing", "unparsable"}

\* what a request for /burp/versions can meet: no listener, a response with
\* an error status, a response without a burpVersion, a response with one
ApiAnswers == {"refused", "error", "noversion", "version"}

\* the answer of the Burp API when the command starts, fs.existsSync of the
\* two jars, and whether spawn gives the process a pid
Machines == [api : ApiAnswers, burp_api_jar : BOOLEAN, burp_jar : BOOLEAN, pid : BOOLEAN]

NoMachine == [api |-> "refused", burp_api_jar |-> FALSE, burp_jar |-> FALSE, pid |-> FALSE]

\* scanPercentage, spiderPercentage
Percentages == {0, 50, 100}

\* response.statusCode of the Burp API
StatusCodes == {200, 299, 300, 500}

\* the scan report the Burp API holds when no junit command asks for it
NoReport == [root |-> "issues", closed |-> TRUE, issues |-> <<>>]

\* One run of burpctl with one command: the options, the configuration and
\* the files are those the command reads.
InitCli ==
    /\ command \in Commands
    /\ argvThreshold \in (IF command = "junit" THEN ArgvThresholds
                          ELSE { [typed |-> FALSE, value |-> ""] })
    /\ configFile \in ConfigFiles
    /\ config \in (IF configFile = "ok" /\ command \in {"scan", "crawl"} THEN Configs
                   ELSE IF configFile = "ok" /\ command = "start"
                     THEN { c \in Configs : c.targets = <<>> }
                   ELSE {NoConfig})
    /\ machine \in (IF configFile = "ok" /\ command = "start" THEN Machines ELSE {NoMachine})
    /\ percentage = 0
    /\ entryIndex = 0
    /\ cpc = "begin"
    /\ requests = <<>>
    /\ stdout = <<>>
    /\ exitCode = -1
    /\ tmpReport = "none"
    /\ spawned = 0
    /\ elapsedSeconds = 0
    /\ burpVersion = ""
    /\ status = 0
    /\ issueReport \in (IF configFile = "ok" /\ command = "junit"
                        THEN IssueReports ELSE {NoReport})
    /\ threshhold = optionsThreshold(argvThreshold)
    /\ pc = "idle"
    /\ scanReport = Undefined
    /\ groupedIssues = <<>>
    /\ junitReport = Undefined
    /\ gi = 0
    /\ ii = 0
    /\ error = NoError
    /\ junitFile = [writes |-> 0, content |-> <<>>]
    /\ earlier = <<>>

\* the words the catch block of the command's action puts before e.message
FailedPrefix ==
    CASE command = "stop"   -> "Stop failed: "
      [] command = "start"  -> "Start failed: "
      [] command = "report" -> "Report download failed: "
      [] command = "junit"  -> "Report download failed: "
      [] command = "scan"   -> "Scan failed: "
      [] command = "crawl"  -> "Crawl failed: "
      [] command = "status" -> "Retrieving status failed: "

log(message) == stdout' = Append(stdout, message)

\* catch(e) of the action, entered by a statement that has printed some
\* messages before it threw: print the failure and end the process with code 1
CatchAfter(printed, message) ==
    /\ stdout' = printed \o <<FailedPrefix \o message>>
    /\ exitCode' = 1
    /\ cpc' = "exited"

Catch(message) == CatchAfter(stdout, message)

\* handleResponse (lines 402-410)
IsApiError(statusCode) == statusCode >= 300

ApiError(statusCode) == "API status error: " \o ToString(statusCode)

\* request(method, url): the request is sent
send(method, path, url) ==
    requests' = Append(requests, [method |-> method, path |-> path, url |-> url])

\* the line the command's action goes on with once the configuration is loaded
AfterLoad ==
    CASE command = "stop"   -> "l89"
      [] command = "start"  -> "l104"
      [] command = "report" -> "l149"
      [] command = "junit"  -> "l265"
      [] command = "scan"   -> "l173"
      [] command = "crawl"  -> "l203"
      [] command = "status" -> "l222"

\* printIntro and loadConfiguration (lines 75-83, 381-400), the first two
\* statements of every action
LoadConfiguration ==
    /\ cpc = "begin"
    /\ IF configFile = "missing"
         THEN CatchAfter(<<"BurpControl">>, "Configuration file config.json not found")
       ELSE IF configFile = "unparsable"
         THEN CatchAfter(<<"BurpControl">>, "Unable to parse configuration config.json")
       ELSE /\ cpc' = AfterLoad
            /\ log("BurpControl")
            /\ UNCHANGED exitCode
    /\ UNCHANGED <<junitVars, givenVars, requests, tmpReport, spawned, loopVars, percentage>>


\* the action has run to its end: the process ends with code 0
Return ==
    /\ cpc = "return"
    /\ exitCode' = 0
    /\ cpc' = "exited"
    /\ UNCHANGED <<junitVars, givenVars, requests, stdout, tmpReport, spawned,
                   loopVars, percentage>>

-----------------------------------------------------------------------------
(* report and junit (lines 145-167, 250-280) *)

\* getReport (lines 250-262), called by reportAction (line 149) and by
\* createJunitReport (line 265): download the scan report and save it, for
\* junit in a new temporary file
getReport ==
    /\ cpc \in {"l149", "l265"}
    /\ send("GET", "/burp/report", IF command = "junit" THEN "XML" ELSE "HTML")
    /\ \E statusCode \in StatusCodes :
         IF IsApiError(statusCode)
           THEN /\ Catch(ApiError(statusCode))
                /\ UNCHANGED tmpReport
           ELSE /\ stdout' = stdout \o <<"[+] Downloading HTML/XML report",
                                        "[-] Scan report saved to"  >>
                /\ tmpReport' = IF command = "junit" THEN "saved" ELSE tmpReport
                /\ cpc' = IF command = "junit" THEN "l267" ELSE "return"
                /\ UNCHANGED exitCode
    /\ UNCHANGED <<junitVars, givenVars, spawned, loopVars, percentage>>

\* lines 267-273 with the deletion of lines 276-277 moved before the call
CallCreateJunitReportAfterUnlink ==
    /\ cpc = "l267"
    /\ pc = "idle"
    /\ stdout' = stdout \o <<"[-] Scan report deleted",
                              "[+] Generating JUnit report from scan report with threshold "
                                 \o threshhold>>
    /\ tmpReport' = "deleted"
    /\ pc' = "l82"
    /\ cpc' = "l273"
    /\ UNCHANGED <<issueReport, threshhold, scanReport, groupedIssues, junitReport, gi, ii,
                   error, junitFile, earlier>>
    /\ UNCHANGED <<givenVars, requests, exitCode, spawned, loopVars, percentage>>

\* lines 267-273: announce the conversion and call junit.createJunitReport on
\* the downloaded file with options.threshold
CallCreateJunitReport ==
    /\ cpc = "l267"
    /\ pc = "idle"
    /\ log("[+] Generating JUnit report from scan report with threshold " \o threshhold)
    /\ pc' = "l82"
    /\ cpc' = "l273"
    /\ UNCHANGED <<issueReport, threshhold, scanReport, groupedIssues, junitReport, gi, ii,
                   error, junitFile, earlier>>
    /\ UNCHANGED <<givenVars, requests, exitCode, tmpReport, spawned, loopVars, percentage>>

\* line 274: junit.createJunitReport has returned
JunitReportSaved ==
    /\ cpc = "l273"
    /\ pc = "returned"
    /\ log("[-] JUnit report saved to")
    /\ cpc' = "l276"
    /\ UNCHANGED <<junitVars, givenVars, requests, exitCode, tmpReport, spawned,
                   loopVars, percentage>>

\* junit.createJunitReport has thrown: the rest of createJunitReport (lines
\* 274-277) is skipped and junitAction catches the exception (line 163)
JunitReportFailed ==
    /\ cpc = "l273"
    /\ pc = "thrown"
    /\ Catch(error.message)
    /\ UNCHANGED <<junitVars, givenVars, requests, tmpReport, spawned, loopVars, percentage>>

\* lines 276-277: delete the downloaded scan report
unlink ==
    /\ cpc = "l276"
    /\ tmpReport' = "deleted"
    /\ log("[-] Scan report deleted")
    /\ cpc' = "return"
    /\ UNCHANGED <<junitVars, givenVars, requests, exitCode, spawned, loopVars, percentage>>


-----------------------------------------------------------------------------
(* start (lines 100-143, 233-248, 282-306) *)

max_startup_time == 60

\* the request for /burp/versions fails: request or handleResponse throws
VersionRequestThrows(answer) == answer \in {"refused", "error"}

\* JSON.parse(response.getBody('utf8')).burpVersion; the empty string stands
\* for undefined (both are falsy)
burpVersionOf(answer) == IF answer = "version" THEN "Burp Suite Professional" ELSE ""

\* isBurpApiAvailable with === undefined on line 237
isBurpApiAvailableInverted(answer) ==
    IF VersionRequestThrows(answer) THEN FALSE ELSE answer = "noversion"

\* isBurpApiAvailable (lines 233-242)
isBurpApiAvailable(answer) ==
    IF VersionRequestThrows(answer) THEN FALSE ELSE answer # "noversion"

\* lines 104-108: refuse to start when the Burp API answers already
CheckNotRunning ==
    /\ cpc = "l104"
    /\ send("GET", "/burp/versions", "")
    /\ IF isBurpApiAvailable(machine.api)
         THEN CatchAfter(Append(stdout, "[+] Starting Burp Suite ..."),
                         "Burp Suite is already running")
         ELSE /\ log("[+] Starting Burp Suite ...")
              /\ cpc' = "l110"
              /\ UNCHANGED exitCode
    /\ UNCHANGED <<junitVars, givenVars, tmpReport, spawned, loopVars, percentage>>

\* lines 110-116: both jars must exist
CheckJars ==
    /\ cpc = "l110"
    /\ IF ~machine.burp_api_jar
         THEN Catch("Unable to locate Burp API jar: ")
       ELSE IF ~machine.burp_jar
         THEN Catch("Unable to locate Burp jar: ")
       ELSE /\ cpc' = "l123"
            /\ UNCHANGED <<stdout, exitCode>>
    /\ UNCHANGED <<junitVars, givenVars, requests, tmpReport, spawned, loopVars, percentage>>

\* lines 118-133, 283-285: spawn java, then enter waitUntilBurpApiIsReady
Spawn ==
    /\ cpc = "l123"
    /\ spawned' = spawned + 1
    /\ IF ~machine.pid
         THEN /\ Catch("Error spawning process")
              /\ UNCHANGED <<elapsedSeconds, burpVersion>>
         ELSE /\ stdout' = stdout \o <<"[-] Burp Suite pid: ", "[-] Waiting for Burp Suite...">>
              /\ elapsedSeconds' = 0
              /\ burpVersion' = ""
              /\ cpc' = "l287"
              /\ UNCHANGED exitCode
    /\ UNCHANGED <<junitVars, givenVars, requests, tmpReport, status, entryIndex, percentage>>

\* lines 287-295: one turn of the loop of waitUntilBurpApiIsReady
Probe ==
    /\ cpc = "l287"
    /\ elapsedSeconds' = elapsedSeconds + 1
    /\ send("GET", "/burp/versions", "")
    /\ \E answer \in ApiAnswers :
         IF VersionRequestThrows(answer)
           THEN /\ log(".")
                /\ cpc' = IF elapsedSeconds' < max_startup_time THEN "l287" ELSE "l296"
                /\ UNCHANGED burpVersion
           ELSE /\ burpVersion' = burpVersionOf(answer)
                /\ cpc' = "l296"
                /\ UNCHANGED stdout
    /\ UNCHANGED <<junitVars, givenVars, exitCode, tmpReport, spawned, status, entryIndex,
                   percentage>>

\* lines 296-305 and 135-137: the loop is over
WaitIsOver ==
    /\ cpc = "l296"
    /\ IF burpVersion # ""
         THEN /\ stdout' = stdout \o <<"success", "[-] " \o burpVersion \o " is running",
                                       "[-] Burp Suite is started", "[-] Swagger UI: ">>
              /\ cpc' = "l137"
              /\ UNCHANGED exitCode
         ELSE CatchAfter(Append(stdout, "failed (timeout)"), "Burp Suite is not reachable")
    /\ UNCHANGED <<junitVars, givenVars, requests, tmpReport, spawned, loopVars, percentage>>

-----------------------------------------------------------------------------
(* updateScope, scan and crawl (lines 169-216, 308-379) *)

QueuePath == IF command = "scan" THEN "/burp/scanner/scans/active" ELSE "/burp/spider"

StatusPath == IF command = "scan" THEN "/burp/scanner/status" ELSE "/burp/spider/status"

\* the loop that queues the first target before the scope is updated
queueBeforeScope ==
    /\ cpc \in {"l173", "l203"}
    /\ Len(config.targets) > 0
    /\ send("POST", QueuePath, config.targets[1])
    /\ cpc' = "l332"
    /\ entryIndex' = 1
    /\ UNCHANGED <<junitVars, givenVars, stdout, exitCode, tmpReport, spawned,
                   elapsedSeconds, burpVersion, status, percentage>>

\* line 331, entered from startAction (line 137), scanAction (line 173) or
\* crawlAction (line 203)
updateScope ==
    /\ cpc \in {"l137", "l173", "l203"}
    /\ log("[+] Updating the scope ...")
    /\ cpc' = "l332"
    /\ entryIndex' = 1
    /\ UNCHANGED <<junitVars, givenVars, requests, exitCode, tmpReport, spawned,
                   elapsedSeconds, burpVersion, status, percentage>>

\* lines 332-334, 348-352: scope.include.forEach, one entry at a time
includeInScope ==
    /\ cpc = "l332"
    /\ IF entryIndex <= Len(config.include)
         THEN /\ send("PUT", "/burp/target/scope", config.include[entryIndex])
              /\ \E statusCode \in StatusCodes :
                   IF IsApiError(statusCode)
                     THEN /\ Catch(ApiError(statusCode))
                          /\ UNCHANGED entryIndex
                     ELSE /\ log("[-] Included in scope: " \o config.include[entryIndex])
                          /\ entryIndex' = entryIndex + 1
                          /\ UNCHANGED <<cpc, exitCode>>
         ELSE /\ cpc' = "l335"
              /\ entryIndex' = 1
              /\ UNCHANGED <<requests, stdout, exitCode>>
    /\ UNCHANGED <<junitVars, givenVars, tmpReport, spawned, elapsedSeconds, burpVersion,
                   status, percentage>>

\* the line the action goes on with after updateScope
AfterScope ==
    CASE command = "start" -> "return"
      [] command = "scan"  -> "l176"
      [] command = "crawl" -> "l205"

\* what the action prints between updateScope and its next statement
StartedMessage ==
    CASE command = "start" -> <<>>
      [] command = "scan"  -> <<"[+] Scan in active mode started ...">>
      [] command = "crawl" -> <<"[+] Crawl started ...">>

\* lines 335-338, 342-346: scope.exclude.forEach, one entry at a time, then
\* the return to the action (lines 174, 204)
excludeFromScope ==
    /\ cpc = "l335"
    /\ IF entryIndex <= Len(config.exclude)
         THEN /\ send("DELETE", "/burp/target/scope", config.exclude[entryIndex])
              /\ \E statusCode \in StatusCodes :
                   IF IsApiError(statusCode)
                     THEN /\ Catch(ApiError(statusCode))
                          /\ UNCHANGED entryIndex
                     ELSE /\ log("[-] Excluded from scope: " \o config.exclude[entryIndex])
                          /\ entryIndex' = entryIndex + 1
                          /\ UNCHANGED <<cpc, exitCode>>
         ELSE /\ stdout' = stdout \o <<"[+] Scope updated">> \o StartedMessage
              /\ cpc' = AfterScope
              /\ entryIndex' = 1
              /\ UNCHANGED <<requests, exitCode>>
    /\ UNCHANGED <<junitVars, givenVars, tmpReport, spawned, elapsedSeconds, burpVersion,
                   status, percentage>>

\* lines 176-178 and 205-207 (scan, crawl): the targets forEach, one entry at
\* a time; then pollScanStatus or pollCrawlStatus is entered (lines 309, 320)
queue ==
    /\ cpc \in {"l176", "l205"}
    /\ IF entryIndex <= Len(config.targets)
         THEN /\ send("POST", QueuePath, config.targets[entryIndex])
              /\ \E statusCode \in StatusCodes :
                   IF IsApiError(statusCode)
                     THEN /\ Catch(ApiError(statusCode))
                          /\ UNCHANGED <<entryIndex, status>>
                     ELSE /\ log("[-] Added to the queue: " \o config.targets[entryIndex])
                          /\ entryIndex' = entryIndex + 1
                          /\ UNCHANGED <<cpc, exitCode, status>>
         ELSE /\ cpc' = "l311"
              /\ status' = 0
              /\ UNCHANGED <<requests, stdout, exitCode, entryIndex>>
    /\ UNCHANGED <<junitVars, givenVars, tmpReport, spawned, elapsedSeconds, burpVersion,
                   percentage>>

\* the crawl or the scan inside Burp Suite goes on while burpctl polls
BurpProgresses ==
    /\ cpc = "l311"
    /\ percentage' \in Percentages \ {percentage}
    /\ UNCHANGED <<junitVars, givenVars, cpc, requests, stdout, exitCode, tmpReport, spawned,
                   loopVars>>

\* the line '\r[-] ... in progress: {}%'
Progress(p) == "[-] In progress: " \o ToString(p) \o "%"

\* process.stdout.write of a line that starts with \r: the line is written
\* over the progress line before it
overwrite(line) ==
    IF stdout # <<>> /\ stdout[Len(stdout)] \in { Progress(p) : p \in Percentages }
    THEN [stdout EXCEPT ![Len(stdout)] = line]
    ELSE Append(stdout, line)

\* the requests with one more status request; status requests that follow
\* each other are kept as one
withStatusRequest ==
    LET r == [method |-> "GET", path |-> StatusPath, url |-> ""]
    IN  IF requests # <<>> /\ requests[Len(requests)] = r THEN requests
        ELSE Append(requests, r)

\* what the action prints after the poll loop, and where it goes on
CompletedMessage ==
    IF command = "scan" THEN <<"[+] Scan completed", "[+] Scan issues:">>
                        ELSE <<"[+] Crawl completed">>

AfterPoll == IF command = "scan" THEN "l185" ELSE "return"

\* the poll loop with the test of line 315 and 326 left out: one poll
pollOnce ==
    /\ cpc = "l311"
    /\ requests' = withStatusRequest
    /\ status' = percentage
    /\ stdout' = overwrite(Progress(status')) \o CompletedMessage
    /\ cpc' = AfterPoll
    /\ UNCHANGED <<junitVars, givenVars, exitCode, tmpReport, spawned, elapsedSeconds,
                   burpVersion, entryIndex, percentage>>

\* lines 310-316 and 321-327 (pollCrawlStatus, pollScanStatus): one turn of
\* the loop; at 100 the loop ends and the action prints its completion
\* (lines 181-182, 210)
poll ==
    /\ cpc = "l311"
    /\ requests' = withStatusRequest
    /\ \E statusCode \in StatusCodes :
         IF IsApiError(statusCode)
           THEN /\ Catch("Server responded with status code " \o ToString(statusCode))
                /\ UNCHANGED status
           ELSE /\ status' = percentage
                /\ IF status' # 100
                     THEN /\ stdout' = overwrite(Progress(status'))
                          /\ UNCHANGED cpc
                     ELSE /\ stdout' = overwrite(Progress(status')) \o CompletedMessage
                          /\ cpc' = AfterPoll
                /\ UNCHANGED exitCode
    /\ UNCHANGED <<junitVars, givenVars, tmpReport, spawned, elapsedSeconds, burpVersion,
                   entryIndex, percentage>>

\* lines 184-191: fetch the issues and print their names
getIssues ==
    /\ cpc = "l185"
    /\ send("GET", "/burp/scanner/issues", "")
    /\ \E statusCode \in StatusCodes :
         IF IsApiError(statusCode)
           THEN Catch("Server responded with status code " \o ToString(statusCode))
           ELSE /\ log("  - ")
                /\ cpc' = "return"
                /\ UNCHANGED exitCode
    /\ UNCHANGED <<junitVars, givenVars, tmpReport, spawned, loopVars, percentage>>

-----------------------------------------------------------------------------
(* stop and status (lines 85-98, 218-231) *)

\* lines 89-92
stop ==
    /\ cpc = "l89"
    /\ send("GET", "/burp/stop", "")
    /\ \E statusCode \in StatusCodes :
         IF IsApiError(statusCode)
           THEN CatchAfter(Append(stdout, "[+] Shutting down Burp Suite ..."),
                           ApiError(statusCode))
           ELSE /\ stdout' = stdout \o <<"[+] Shutting down Burp Suite ...",
                                         "[-] Burp Suite is stopped">>
                /\ cpc' = "return"
                /\ UNCHANGED exitCode
    /\ UNCHANGED <<junitVars, givenVars, tmpReport, spawned, loopVars, percentage>>

\* lines 222-225
getStatus ==
    /\ cpc = "l222"
    /\ send("GET", "/burp/versions", "")
    /\ \E answer \in ApiAnswers :
         IF VersionRequestThrows(answer)
           THEN /\ CatchAfter(Append(stdout, "[+] Retrieving status ..."), "API status error")
                /\ UNCHANGED burpVersion
           ELSE /\ burpVersion' = burpVersionOf(answer)
                /\ stdout' = stdout \o <<"[+] Retrieving status ...",
                                         "[-] " \o burpVersion' \o " is running",
                                         "[+] Retrieving status completed">>
                /\ cpc' = "return"
                /\ UNCHANGED exitCode
    /\ UNCHANGED <<junitVars, givenVars, tmpReport, spawned, elapsedSeconds, status,
                   entryIndex, percentage>>

-----------------------------------------------------------------------------
(* burpctl scan and burpctl crawl alone, with the poll loop scheduled: the   *)
(* timer of sleep(1000) fires and the loop takes its next turn               *)

InitPoll ==
    /\ InitCli
    /\ command \in {"scan", "crawl"}

NextPoll ==
    \/ LoadConfiguration
    \/ updateScope
    \/ includeInScope
    \/ excludeFromScope
    \/ queue
    \/ BurpProgresses
    \/ poll
    \/ getIssues
    \/ Return

SpecPoll == InitPoll /\ [][NextPoll]_vars /\ WF_vars(poll)

-----------------------------------------------------------------------------
(* burpctl: one run of one command *)

\* createJunitReport of junit-report.js runs inside the junit command
NextCli ==
    \/ LoadConfiguration
    \/ stop
    \/ CheckNotRunning
    \/ CheckJars
    \/ Spawn
    \/ Probe
    \/ WaitIsOver
    \/ updateScope
    \/ includeInScope
    \/ excludeFromScope
    \/ queue
    \/ BurpProgresses
    \/ poll
    \/ getIssues
    \/ getStatus
    \/ getReport
    \/ CallCreateJunitReport
    \/ Next
    \/ JunitReportSaved
    \/ JunitReportFailed
    \/ unlink
    \/ Return

SpecCli == InitCli /\ [][NextCli]_vars



\* C22: the threshold the junit command hands to createJunitReport is
\* one the converter accepts: on a well-formed report the conversion never
\* fails with the unknown-threshold error, and a report is written only under
\* a threshold that is a level.
C22_CliThresholdIsAcceptedByConverter ==
    (command = "junit" /\ WellFormed) =>
      /\ pc = "thrown" => error.message # ThresholdMessage
      /\ pc = "returned" => threshhold \in Levels


\* the junit command has run to its end without a failure
JunitSucceeded == command = "junit" /\ cpc = "exited" /\ exitCode = 0

\* C23: the downloaded scan report is deleted only after the JUnit report
\* has been written, and a successful run of the junit command downloads,
\* converts, writes and deletes in this order: the scan report is saved before
\* the conversion starts, is still there while createJunitReport runs, and the
\* console shows the four steps in order.
C23_DeleteOnlyAfterJunitWritten ==
    command = "junit" =>
      /\ tmpReport = "deleted" => (pc = "returned" /\ junitFile.writes = 1)
      /\ pc \notin {"idle"} => tmpReport # "none"
      /\ pc \notin {"idle", "returned"} => tmpReport = "saved"
      /\ JunitSucceeded =>
           /\ tmpReport = "deleted"
           /\ requests = << [method |-> "GET", path |-> "/burp/report", url |-> "XML"] >>
           /\ stdout = << "BurpControl",
                          "[+] Downloading HTML/XML report",
                          "[-] Scan report saved to",
                          "[+] Generating JUnit report from scan report with threshold "
                             \o threshhold,
                          "[-] JUnit report saved to",
                          "[-] Scan report deleted" >>

\* a successful run that wrote a report with a failure
C23_Witness ==
    /\ JunitSucceeded
    /\ tmpReport = "deleted"
    /\ AllOf("failure") # {}
    /\ junitFile.writes = 1


\* C24: when the junit command has ended, by success or by failure, the
\* temporary scan report it downloaded is no longer on disk (stated for a
\* well-formed report of several issues and a threshold that is a level).
C24_TemporaryReportIsGoneAtExit ==
    ( /\ command = "junit"
      /\ cpc = "exited"
      /\ WellFormed
      /\ Len(InputIssues) >= 2
      /\ threshhold \in Levels ) => tmpReport # "saved"



\* the last message on the console
LastMessage == IF stdout = <<>> THEN "" ELSE stdout[Len(stdout)]

\* waitUntilBurpApiIsReady has thrown its timeout error
NotReachable == LastMessage = "Start failed: Burp Suite is not reachable"

\* the probes made so far
Probes == elapsedSeconds

\* C26: waitUntilBurpApiIsReady makes at most max_startup_time probes;
\* it returns only with a Burp version obtained by a probe; and it throws
\* "Burp Suite is not reachable" only after all max_startup_time probes.
C26_WaitEndsWithVersionOrAfterAllProbes ==
    command = "start" =>
      /\ Probes <= max_startup_time
      /\ cpc = "l137" => burpVersion # ""
      /\ NotReachable => Probes = max_startup_time



\* the requests that change the scope
ScopeRequests == SelectSeq(requests, LAMBDA r : r.path = "/burp/target/scope")

\* C27: startAction spawns at most once, and only when the Burp API did
\* not answer the version request with a Burp version and both jars exist; no
\* scope request is sent, and updateScope is not entered, before a process was
\* spawned and the wait has obtained a Burp version.
C27_SpawnOnlyWhenNeededScopeAfterWait ==
    command = "start" =>
      /\ spawned <= 1
      /\ spawned > 0 =>
           /\ machine.api # "version"
           /\ machine.burp_api_jar
           /\ machine.burp_jar
      /\ (ScopeRequests # <<>> \/ cpc \in {"l332", "l335"}) =>
           /\ spawned = 1
           /\ machine.pid
           /\ burpVersion # ""
           /\ Probes >= 1
           /\ \E m \in 1..Len(stdout) : stdout[m] = "[-] Burp Suite is started"

\* Burp Suite was spawned, answered at the third probe, and the scope was
\* updated with includes and excludes
C27_Witness ==
    /\ command = "start"
    /\ exitCode = 0
    /\ spawned = 1
    /\ Probes = 3
    /\ Len(ScopeRequests) = 4



\* the poll loop is running
Polling == cpc = "l311"

\* the poll loop has returned to its action
PollReturned ==
    /\ command \in {"scan", "crawl"}
    /\ \/ cpc \in {"l185", "return"}
       \/ cpc = "exited" /\ exitCode = 0
       \/ \E m \in 1..Len(stdout) : stdout[m] \in {"[+] Scan completed", "[+] Crawl completed"}
       \/ \E r \in 1..Len(requests) : requests[r].path = "/burp/scanner/issues"

\* C28: pollScanStatus and pollCrawlStatus return only after a poll has
\* observed the status 100, so the completion message and the request for the
\* issues come after that observation; and if the status Burp reports is 100
\* from some time on, a running poll loop ends.
C28_PollReturnsAtHundredAndTerminates ==
    /\ [](PollReturned =>
            /\ status = 100
            /\ requests # <<>>
            /\ \E r \in 1..Len(requests) : requests[r].path = StatusPath)
    /\ (<>[](percentage = 100)) => (Polling ~> ~Polling)

\* a scan of two targets has completed and its issues were fetched
C28_Witness ==
    /\ command = "scan"
    /\ exitCode = 0
    /\ status = 100
    /\ Len(config.targets) = 2
    /\ requests[Len(requests)].path = "/burp/scanner/issues"
    /\ requests[Len(requests) - 1].path = "/burp/scanner/status"



\* one request per entry of a list of the configuration, in the list's order
RequestsFor(method, path, entries) ==
    [i \in 1..Len(entries) |-> [method |-> method, path |-> path, url |-> entries[i]]]

\* everything scan or crawl sends when nothing fails (status requests that
\* follow each other written once)
AllRequests ==
    RequestsFor("PUT", "/burp/target/scope", config.include)
      \o RequestsFor("DELETE", "/burp/target/scope", config.exclude)
      \o RequestsFor("POST", QueuePath, config.targets)
      \o << [method |-> "GET", path |-> StatusPath, url |-> ""] >>
      \o (IF command = "scan"
          THEN << [method |-> "GET", path |-> "/burp/scanner/issues", url |-> ""] >>
          ELSE <<>>)

IsPrefix(s, t) == Len(s) <= Len(t) /\ SubSeq(t, 1, Len(s)) = s

\* the requests for entries of the configuration, and the entries the console
\* reports as done
EntryRequests == SelectSeq(requests, LAMBDA r : r.method \in {"PUT", "DELETE", "POST"})

Acknowledged ==
    SelectSeq(stdout, LAMBDA m :
      m \in { "[-] Included in scope: " \o e : e \in { config.include[i] : i \in 1..Len(config.include) } }
        \cup { "[-] Excluded from scope: " \o e : e \in { config.exclude[i] : i \in 1..Len(config.exclude) } }
        \cup { "[-] Added to the queue: " \o e : e \in { config.targets[i] : i \in 1..Len(config.targets) } })

\* the command was ended by an API error
AbortedByApi ==
    /\ cpc = "exited"
    /\ exitCode = 1
    /\ \E c \in StatusCodes :
         LastMessage \in { FailedPrefix \o ApiError(c),
                           FailedPrefix \o "Server responded with status code " \o ToString(c) }

\* C29: what scan and crawl have sent is at every moment a beginning of:
\* the includes in configuration order, the excludes, the targets in
\* configuration order, the status polls, (scan) the issues; every request for
\* an entry but the last one was answered below 300; and after a response of
\* 300 or more the command has ended with the failed request as its last.
C29_RequestsInOrderAbortAtFirstError ==
    command \in {"scan", "crawl"} =>
      /\ IsPrefix(requests, AllRequests)
      /\ Polling => Len(EntryRequests) =
                      Len(config.include) + Len(config.exclude) + Len(config.targets)
      /\ IF AbortedByApi /\ requests[Len(requests)].method # "GET"
           THEN Len(Acknowledged) = Len(EntryRequests) - 1
           ELSE Len(Acknowledged) = Len(EntryRequests)
      /\ (cpc = "exited" /\ exitCode = 1 /\ requests # <<>>) => AbortedByApi

\* a scan with two includes and two excludes is aborted by the response to
\* its second target
C29_Witness ==
    /\ command = "scan"
    /\ AbortedByApi
    /\ Len(config.include) = 2
    /\ Len(config.exclude) = 2
    /\ Len(requests) = 6
    /\ requests[6] = [method |-> "POST", path |-> "/burp/scanner/scans/active", url |-> "target2"]



\* the message with which the command's action reports its success
SuccessMessage ==
    CASE command = "stop"   -> "[-] Burp Suite is stopped"
      [] command = "start"  -> "[-] Burp Suite is started"
      [] command = "report" -> "[-] Scan report saved to"
      [] command = "junit"  -> "[-] JUnit report saved to"
      [] command = "scan"   -> "[+] Scan completed"
      [] command = "crawl"  -> "[+] Crawl completed"
      [] command = "status" -> "[+] Retrieving status completed"

Printed(message) == \E m \in 1..Len(stdout) : stdout[m] = message

\* C25: a command that hit an error at any step has ended with exit code
\* 1 and without its success message on the console; a command that ended
\* with code 0 has printed its success message; a conversion that threw ends
\* the junit command with code 1.
C25_ErrorExitsWithOneWithoutSuccessMessage ==
    (command \in Commands /\ cpc = "exited") =>
      /\ exitCode \in {0, 1}
      /\ exitCode = 0 => Printed(SuccessMessage)
      /\ pc = "thrown" => exitCode = 1
      /\ exitCode = 1 => ~Printed(SuccessMessage)

=============================================================================
